---- MODULE Spec2Model ----
(***************************************************************************)
(* Model of the remounter daemon: src/src/main.rs (main) and               *)
(* src/src/remounter.rs (new_remounter, Remounter::run, check_connection,  *)
(* remount, remount_shares).                                               *)
(*                                                                         *)
(* The monitor loop is one thread.  It is split into steps at the places   *)
(* where it blocks on the outside world (TCP probe, mount command, hook    *)
(* command, sleep), because the signal handler may set the shutdown flag   *)
(* and the filesystem may change while the loop is blocked.                *)
(***************************************************************************)
EXTENDS Integers, Sequences, FiniteSets, TLC

\* ---------------------------------------------------------------- bounds
MaxShares == 2
MaxPolls == 3

\* ------------------------------------------------------- input alphabets
Paths == {"/mnt/a", "/mnt/b"}

NoScript == "None"
SomeScript == "Some"

\* outcome of `Command::new("sh")....status()`: the shell ran and exited 0,
\* ran and exited non-zero, or could not be spawned at all (io::Error).
CmdOutcomes == {"ok", "nonzero", "spawn"}

\* outcome of `to_socket_addrs()?.next()`: an address, an Err, or no address.
ResolveOutcomes == {"addr", "err", "empty"}

Signals == {"SIGTERM", "SIGINT"}

SeqsUpTo(S, n) == UNION {[1..k -> S] : k \in 1..n}

VARIABLES
    pc,                 \* position of the main thread
    term,               \* the AtomicBool shared with the signal handlers
    was_up,             \* local of check_connection
    smb_shares,         \* Remounter.smb_shares
    post_mount_script,  \* Remounter.post_mount_script
    exists,             \* filesystem: does the local path exist
    idx,                \* position of the iterator in remount_shares
    errors,             \* the Vec collected by remount_shares
    exit_code,          \* -1 while the process runs, else its exit status
    \* history variables (not read by the program)
    polls,              \* probes completed
    prev,               \* result of the probe before the latest one
    cur,                \* result of the latest probe
    passStarted,        \* the latest poll started a remount pass
    passResult,         \* result of the pass of the latest poll
    attempted,          \* shares for which remount was called in that pass
    outcomes,           \* per-share outcome of those calls
    hookRuns,           \* hook invocations in the latest poll
    opsAfterTerm,       \* operations completed while the flag was set
    failedRun,          \* a pass failed and every probe since was reachable
    exit_cause,         \* why the process exited
    log,                \* events logged by check_connection in the latest poll
    hookOutcome,        \* how the hook command of the latest poll ended
    resolved,           \* outcome of the name resolution at startup
    signalsSeen,        \* signals delivered so far
    sleepsSinceProbe    \* sleeps completed since the latest probe returned

vars == <<pc, term, was_up, smb_shares, post_mount_script, exists, idx,
          errors, exit_code, polls, prev, cur, passStarted, passResult,
          attempted, outcomes, hookRuns, opsAfterTerm, failedRun, exit_cause,
          log, hookOutcome, resolved, signalsSeen, sleepsSinceProbe>>

prog == <<was_up, smb_shares, post_mount_script, idx, errors, exit_code>>
hist == <<polls, prev, cur, passStarted, passResult, attempted, outcomes,
          hookRuns, opsAfterTerm, failedRun, exit_cause>>
hist2 == <<hookOutcome, resolved, signalsSeen, sleepsSinceProbe>>

\* ------------------------------------------------ the code, as operators

\* variant: an empty resolution is not turned into an error
ResolveOk_EmptyAccepted(r) == r # "err"

\* new_remounter: `to_socket_addrs()?.next().ok_or_else(..)?`
ResolveOk(r) == r = "addr"

\* variant: the loop condition never looks at the flag
LoopContinues_IgnoresFlag(t) == TRUE

\* `while !term.load(Ordering::Relaxed)`
LoopContinues(t) == ~t

\* variant: the edge test is dropped, every reachable poll starts a pass
StartsPass_EveryUpPoll(up, w) == up

\* `if self.is_up(..) { if !was_up { ... remount_shares() ... } }`
StartsPass(up, w) == up /\ ~w

\* variant: the Down branch forgets to clear was_up
NextWasUp_NoRearm(up, w) == IF up THEN TRUE ELSE w

\* variant: the Down branch flips was_up instead of clearing it
NextWasUp_FlipOnDown(up, w) == IF up THEN TRUE ELSE ~w

\* the assignments to was_up in the two branches of the loop body
NextWasUp(up, w) ==
    IF up THEN (IF ~w THEN TRUE ELSE w)
          ELSE (IF w THEN FALSE ELSE w)

\* variant: the exists() test is missing
SkipsMount_Never(pathExists) == FALSE

\* remount: `if smb_share.exists() { return Err(..) }`
SkipsMount(pathExists) == pathExists

\* variant: a spawn error is swallowed instead of returned
MountErr_SpawnSwallowed(cmd) == IF cmd = "nonzero" THEN "nonzero" ELSE "none"

\* remount: `let status = Command..status()?; if !status.success() { Err }`
\* The `?` returns the io::Error from remount, like any other Err.
MountErr(cmd) ==
    IF cmd = "spawn" THEN "spawn"
    ELSE IF cmd = "nonzero" THEN "nonzero"
    ELSE "none"

\* variant: the Err of an already existing path is not collected
CollectErr_SkipNotCollected(errs, e) ==
    IF e \notin {"none", "exists"} THEN Append(errs, e) ELSE errs

\* remount_shares: `.filter_map(|share| self.remount(share).err())`
CollectErr(errs, e) == IF e # "none" THEN Append(errs, e) ELSE errs

\* variant: the pass stops at the first error (a short-circuiting collect)
NextShare_ShortCircuit(i, e, n) == IF e # "none" THEN n + 1 ELSE i + 1

\* variant: the iterator steps over every second share
NextShare_StepsByTwo(i, e, n) == i + 2

\* remount_shares: the iterator visits every share, whatever the result
NextShare(i, e, n) == i + 1

\* remount_shares: `if !errors.is_empty() { return Err(..) } Ok(())`
PassResult(errs) == IF errs # <<>> THEN "err" ELSE "ok"

\* variant: the hook does not depend on the result of the pass
AfterPass_HookOnErr(res, script) ==
    IF script # NoScript THEN "hook"
    ELSE IF res = "err" THEN "loop"
    ELSE "sleeping"

\* variant: `continue` re-enters the body without evaluating the condition
AfterPass_ContinueSkipsCheck(res, script) ==
    IF res = "err" THEN "probing"
    ELSE IF script # NoScript THEN "hook"
    ELSE "sleeping"

\* variant: `self.remount_shares()?` instead of the match
AfterPass_ErrPropagates(res, script) ==
    IF res = "err" THEN "err"
    ELSE IF script # NoScript THEN "hook"
    ELSE "sleeping"

\* check_connection: `match self.remount_shares() { Ok => .., Err => continue }`
\* followed by `if let Some(script) = &self.post_mount_script`
AfterPass(res, script) ==
    IF res = "err" THEN "loop"
    ELSE IF script # NoScript THEN "hook"
    ELSE "sleeping"

\* variant: a non-zero exit of the hook is returned as an error
AfterHook_NonZeroIsError(cmd) == IF cmd # "ok" THEN "err" ELSE "sleeping"

\* variant: the spawn error of the hook is ignored
AfterHook_SpawnIgnored(cmd) == "sleeping"

\* check_connection: `let status = Command..status()?;` for the hook
AfterHook(cmd) == IF cmd = "spawn" THEN "err" ELSE "sleeping"

\* variant: the Up branch logs nothing before the pass
EdgeLog_UpNotLogged(up, w) == IF ~up /\ w THEN <<"down">> ELSE <<>>

\* check_connection: the info! of the Up branch (before remount_shares is
\* called) and of the Down branch
EdgeLog(up, w) ==
    IF up /\ ~w THEN <<"up">>
    ELSE IF ~up /\ w THEN <<"down">>
    ELSE <<>>

\* check_connection: the info!/error! of the match on remount_shares and the
\* info! before the hook command
PassLog(res, script) ==
    IF res = "err" THEN <<"remount_failed">>
    ELSE IF script # NoScript THEN <<"remount_ok", "hook_start">>
    ELSE <<"remount_ok">>

\* check_connection: `if !status.success() { error!(..) }`
HookLog(cmd) == IF cmd = "nonzero" THEN <<"hook_failed">> ELSE <<>>

\* variant: the handler toggles the flag
FlagAfterSignal_Toggle(t) == ~t

\* signal_hook::flag::register: the handler stores true in the flag
FlagAfterSignal(t) == TRUE

\* main: `std::process::exit(1)` on Err, fall off the end on Ok
ExitStatus(ok) == IF ok THEN 0 ELSE 1

\* ------------------------------------------------------------------ Init
Init ==
    /\ pc = "main"
    /\ term = FALSE
    /\ was_up = FALSE
    /\ smb_shares \in SeqsUpTo(Paths, MaxShares)
    /\ post_mount_script \in {NoScript, SomeScript}
    /\ exists \in [Paths -> BOOLEAN]
    /\ idx = 1
    /\ errors = <<>>
    /\ exit_code = -1
    /\ polls = 0
    /\ prev = "none"
    /\ cur = "none"
    /\ passStarted = FALSE
    /\ passResult = "none"
    /\ attempted = <<>>
    /\ outcomes = <<>>
    /\ hookRuns = 0
    /\ opsAfterTerm = 0
    /\ failedRun = FALSE
    /\ exit_cause = "none"
    /\ log = <<>>
    /\ hookOutcome = "none"
    /\ resolved = "none"
    /\ signalsSeen = {}
    /\ sleepsSinceProbe = 0

Completed == IF term THEN opsAfterTerm + 1 ELSE opsAfterTerm

\* --------------------------------------------------------------- actions

\* main calls new_remounter; an Err is logged and the process exits 1
NewRemounter ==
    /\ pc = "main"
    /\ \E r \in ResolveOutcomes :
        /\ resolved' = r
        /\ IF ResolveOk(r)
           THEN /\ pc' = "run"
                /\ UNCHANGED <<exit_code, exit_cause>>
           ELSE /\ pc' = "exited"
                /\ exit_code' = ExitStatus(FALSE)
                /\ exit_cause' = "resolve"
    /\ UNCHANGED <<term, was_up, smb_shares, post_mount_script, exists, idx,
                   errors, polls, prev, cur, passStarted, passResult,
                   attempted, outcomes, hookRuns, opsAfterTerm, failedRun,
                   log, hookOutcome, signalsSeen, sleepsSinceProbe>>

\* run -> check_connection: create the flag, register both handlers (`?`)
Register ==
    /\ pc = "run"
    /\ \E ok \in BOOLEAN :
        IF ok
        THEN /\ pc' = "loop"
             /\ exit_cause' = exit_cause
        ELSE /\ pc' = "err"
             /\ exit_cause' = "register"
    /\ term' = FALSE
    /\ was_up' = FALSE
    /\ UNCHANGED <<smb_shares, post_mount_script, exists, idx, errors,
                   exit_code, polls, prev, cur, passStarted, passResult,
                   attempted, outcomes, hookRuns, opsAfterTerm, failedRun,
                   log, hist2>>

\* top of the loop: load the flag; leave the loop or begin the probe
LoopCheck ==
    /\ pc = "loop"
    /\ IF LoopContinues(term)
       THEN /\ polls < MaxPolls
            /\ pc' = "probing"
            /\ log' = log
       ELSE /\ pc' = "ret_ok"
            /\ log' = Append(log, "terminating")
    /\ UNCHANGED <<term, exists, prog, hist, hist2>>

\* is_up returns; the branches of the loop body up to the first blocking call
ProbeComplete ==
    /\ pc = "probing"
    /\ \E up \in BOOLEAN :
        /\ was_up' = NextWasUp(up, was_up)
        /\ passStarted' = StartsPass(up, was_up)
        /\ pc' = IF StartsPass(up, was_up) THEN "remount" ELSE "sleeping"
        /\ prev' = cur
        /\ cur' = IF up THEN "up" ELSE "down"
        /\ failedRun' = (failedRun /\ up)
        /\ log' = EdgeLog(up, was_up)
    /\ hookOutcome' = "none"
    /\ sleepsSinceProbe' = 0
    /\ polls' = polls + 1
    /\ idx' = 1
    /\ errors' = <<>>
    /\ passResult' = "none"
    /\ attempted' = <<>>
    /\ outcomes' = <<>>
    /\ hookRuns' = 0
    /\ opsAfterTerm' = Completed
    /\ UNCHANGED <<term, smb_shares, post_mount_script, exists, exit_code,
                   exit_cause, resolved, signalsSeen>>

\* remount_shares calls remount for the next share: the exists() test.
\* `to_str()` cannot fail here: main builds every path from a String.
RemountCall ==
    /\ pc = "remount"
    /\ idx <= Len(smb_shares)
    /\ attempted' = Append(attempted, smb_shares[idx])
    /\ IF SkipsMount(exists[smb_shares[idx]])
       THEN /\ errors' = CollectErr(errors, "exists")
            /\ outcomes' = Append(outcomes, "skipped")
            /\ idx' = NextShare(idx, "exists", Len(smb_shares))
            /\ pc' = "remount"
       ELSE /\ pc' = "mounting"
            /\ UNCHANGED <<errors, outcomes, idx>>
    /\ UNCHANGED <<term, was_up, smb_shares, post_mount_script, exists,
                   exit_code, polls, prev, cur, passStarted, passResult,
                   hookRuns, opsAfterTerm, failedRun, exit_cause, log, hist2>>

\* the mount command returns (or could not be spawned)
MountComplete ==
    /\ pc = "mounting"
    /\ \E cmd \in CmdOutcomes :
        /\ errors' = CollectErr(errors, MountErr(cmd))
        /\ outcomes' = Append(outcomes,
                          IF cmd = "ok" THEN "succeeded"
                          ELSE IF cmd = "nonzero" THEN "failed"
                          ELSE "spawnfail")
        /\ idx' = NextShare(idx, MountErr(cmd), Len(smb_shares))
    /\ pc' = "remount"
    /\ opsAfterTerm' = Completed
    /\ UNCHANGED <<term, was_up, smb_shares, post_mount_script, exists,
                   exit_code, polls, prev, cur, passStarted, passResult,
                   attempted, hookRuns, failedRun, exit_cause, log, hist2>>

\* remount_shares returns; check_connection matches on the result and either
\* continues, starts the hook or goes to sleep
PassDone ==
    /\ pc = "remount"
    /\ idx > Len(smb_shares)
    /\ passResult' = PassResult(errors)
    /\ pc' = AfterPass(PassResult(errors), post_mount_script)
    /\ hookRuns' = IF AfterPass(PassResult(errors), post_mount_script) = "hook"
                   THEN hookRuns + 1 ELSE hookRuns
    /\ failedRun' = (PassResult(errors) = "err")
    /\ log' = log \o PassLog(PassResult(errors), post_mount_script)
    /\ UNCHANGED <<term, exists, prog, polls, prev, cur, passStarted,
                   attempted, outcomes, opsAfterTerm, exit_cause, hist2>>

\* the hook command returns (or could not be spawned)
HookComplete ==
    /\ pc = "hook"
    /\ \E cmd \in CmdOutcomes :
        /\ pc' = AfterHook(cmd)
        /\ exit_cause' = IF AfterHook(cmd) = "err" THEN "hook_spawn"
                         ELSE exit_cause
        /\ log' = log \o HookLog(cmd)
        /\ hookOutcome' = cmd
    /\ opsAfterTerm' = Completed
    /\ UNCHANGED <<term, exists, prog, polls, prev, cur, passStarted,
                   passResult, attempted, outcomes, hookRuns, failedRun,
                   resolved, signalsSeen, sleepsSinceProbe>>

\* sleep(1s) returns
SleepComplete ==
    /\ pc = "sleeping"
    /\ pc' = "loop"
    /\ opsAfterTerm' = Completed
    /\ sleepsSinceProbe' = sleepsSinceProbe + 1
    /\ UNCHANGED <<term, exists, prog, polls, prev, cur, passStarted,
                   passResult, attempted, outcomes, hookRuns, failedRun,
                   exit_cause, log, hookOutcome, resolved, signalsSeen>>

\* check_connection returned Ok: run returns Ok, main logs and returns
ExitNormally ==
    /\ pc = "ret_ok"
    /\ pc' = "exited"
    /\ exit_code' = ExitStatus(TRUE)
    /\ exit_cause' = "shutdown"
    /\ UNCHANGED <<term, was_up, smb_shares, post_mount_script, exists, idx,
                   errors, polls, prev, cur, passStarted, passResult,
                   attempted, outcomes, hookRuns, opsAfterTerm, failedRun,
                   log, hist2>>

\* check_connection returned Err: run returns it, main exits 1
ExitOnError ==
    /\ pc = "err"
    /\ pc' = "exited"
    /\ exit_code' = ExitStatus(FALSE)
    /\ UNCHANGED <<term, was_up, smb_shares, post_mount_script, exists, idx,
                   errors, polls, prev, cur, passStarted, passResult,
                   attempted, outcomes, hookRuns, opsAfterTerm, failedRun,
                   exit_cause, log, hist2>>

\* SIGTERM or SIGINT is delivered while the handlers are registered (before
\* registration the default disposition applies and nothing of the loop runs)
SignalDelivered ==
    /\ pc \notin {"main", "run", "exited"}
    /\ \E sig \in Signals :
        /\ term' = FlagAfterSignal(term)
        /\ signalsSeen' = signalsSeen \cup {sig}
    /\ UNCHANGED <<pc, exists, prog, hist, log, hookOutcome, resolved,
                   sleepsSinceProbe>>

\* the outside world creates or removes a local path
FsChange ==
    /\ pc # "exited"
    /\ \E p \in Paths : exists' = [exists EXCEPT ![p] = ~@]
    /\ UNCHANGED <<pc, term, prog, hist, log, hist2>>

Next ==
    \/ NewRemounter
    \/ Register
    \/ LoopCheck
    \/ ProbeComplete
    \/ RemountCall
    \/ MountComplete
    \/ PassDone
    \/ HookComplete
    \/ SleepComplete
    \/ ExitNormally
    \/ ExitOnError
    \/ SignalDelivered
    \/ FsChange

Spec == Init /\ [][Next]_vars

\* every step of the main thread is eventually taken once it can be: the
\* thread is always scheduled and every blocking call returns.  Signal
\* delivery and filesystem changes are not fair.
Fairness ==
    /\ WF_vars(NewRemounter)
    /\ WF_vars(Register)
    /\ WF_vars(LoopCheck)
    /\ WF_vars(ProbeComplete)
    /\ WF_vars(RemountCall)
    /\ WF_vars(MountComplete)
    /\ WF_vars(PassDone)
    /\ WF_vars(HookComplete)
    /\ WF_vars(SleepComplete)
    /\ WF_vars(ExitNormally)
    /\ WF_vars(ExitOnError)

FairSpec == Spec /\ Fairness

\* ------------------------------------------------------------ properties

HasOutcome(o) == \E k \in 1..Len(outcomes) : outcomes[k] = o

\* C1: a remount pass is started at a poll if and only if that poll's probe
\* is reachable and the previous poll's probe was unreachable or there was no
\* previous poll; a poll that starts no pass calls remount for no share.
C1_PassIffUpEdge ==
    /\ polls > 0 => (passStarted <=> (cur = "up" /\ prev # "up"))
    /\ pc \in {"remount", "mounting", "hook"} => passStarted
    /\ ~passStarted => attempted = <<>> /\ passResult = "none"

\* C1 witness: reachable, unreachable, reachable: the third poll is a
\* Down-to-Up edge and starts a pass
C1_Witness ==
    polls = 3 /\ prev = "down" /\ cur = "up" /\ passStarted /\ pc = "remount"

\* C2 as stated: a pass is Successful exactly when no share's outcome is
\* Failed, a share skipped because its path exists counting as non-failure.
C2_SkipIsNotFailure ==
    passResult # "none" =>
        (passResult = "ok" <=> ~HasOutcome("failed") /\ ~HasOutcome("spawnfail"))

\* C2 amended: a pass is Successful exactly when remount returned Ok for every
\* share, that is when every share was mounted by a command that exited zero;
\* a share skipped because its path exists makes the pass fail.
C2_PassOkIffAllMounted ==
    passResult # "none" =>
        (passResult = "ok" <=>
            \A k \in 1..Len(outcomes) : outcomes[k] = "succeeded")

\* C2 witness: a finished pass with one skipped and one mounted share
C2_Witness ==
    /\ passResult = "err"
    /\ HasOutcome("skipped") /\ HasOutcome("succeeded")
    /\ ~HasOutcome("failed") /\ ~HasOutcome("spawnfail")

\* C3: the hook is invoked if and only if a hook command is configured and
\* the pass started by the current Up-edge returned Ok; it is invoked after
\* the pass completed and at most once per Up-edge.
C3_HookIffPassOkAndConfigured ==
    /\ hookRuns <= 1
    /\ hookRuns = 1 =>
          post_mount_script # NoScript /\ passStarted /\ passResult = "ok"
    /\ pc = "hook" => hookRuns = 1
    /\ passResult = "ok" /\ post_mount_script # NoScript => hookRuns = 1

\* C3 witness: two shares mounted, hook invoked once, loop back at its sleep
C3_Witness ==
    /\ hookRuns = 1 /\ pc = "sleeping"
    /\ outcomes = <<"succeeded", "succeeded">>

\* C4: after a failed pass was_up is Up, and while every later probe is
\* reachable no pass is started and no hook is invoked; only a probe that
\* finds the endpoint unreachable re-arms the edge.
C4_NoRetryWithoutFlap ==
    failedRun =>
        /\ was_up
        /\ pc \notin {"remount", "mounting", "hook"}
        /\ hookRuns = 0

\* C4 witness: a pass failed and a later poll found the endpoint reachable
\* and went straight to the sleep
C4_Witness ==
    failedRun /\ polls >= 2 /\ pc = "sleeping" /\ ~passStarted /\ cur = "up"

\* C5: in a finished pass remount was called exactly once for every
\* configured share, in order, whatever the outcomes of the other shares.
C5_EveryShareAttemptedOnce ==
    /\ Len(attempted) <= Len(smb_shares)
    /\ passResult # "none" =>
          attempted = smb_shares /\ Len(outcomes) = Len(smb_shares)

\* C5 witness: the first share failed and the second was still mounted
C5_Witness ==
    passResult = "err" /\ outcomes = <<"failed", "succeeded">>

\* C6: when remount is called for a share whose local path exists at that
\* moment, the mount command is not invoked by that call.
C6_NoMountWhenPathExists ==
    [][(pc = "remount" /\ idx <= Len(smb_shares) /\ exists[smb_shares[idx]])
          => pc' # "mounting"]_vars

\* C6 witness: remount has just returned for a share whose path existed
C6_Witness ==
    /\ pc = "remount"
    /\ outcomes # <<>>
    /\ outcomes[Len(outcomes)] = "skipped"

\* C7: a probe begins only from the shutdown check at the top of the loop and
\* only when the flag was read false, also after a failed pass; when the flag
\* is read true the loop returns Ok, the process exits with status 0, and no
\* probe, remount call or hook begins afterwards.
C7_ShutdownObservedAtLoopTop ==
    [][/\ (pc' = "probing" /\ pc # "probing") => (pc = "loop" /\ ~term)
       /\ (pc = "loop" /\ term /\ pc' # pc) => pc' = "ret_ok"
       /\ (pc = "ret_ok" /\ pc' # pc) => (pc' = "exited" /\ exit_code' = 0)
       /\ pc \in {"ret_ok", "exited"} =>
             /\ pc' \in {"ret_ok", "exited"}
             /\ polls' = polls
             /\ attempted' = attempted
             /\ hookRuns' = hookRuns]_vars

\* C7 witness: the shutdown check that followed a failed pass read true and
\* the process exited with status 0
C7_Witness ==
    pc = "exited" /\ exit_code = 0 /\ passResult = "err"

\* C8 as stated: after the flag is set the loop completes at most one further
\* operation before it exits.
C8_AtMostOneOperationAfterFlag == opsAfterTerm <= 1

\* C8 amended: after the flag is set the loop completes at most the rest of
\* the current iteration, that is at most one probe, one mount command per
\* configured share, one hook run and one sleep, before it exits.
C8_AtMostOneIterationAfterFlag == opsAfterTerm <= Len(smb_shares) + 3

\* C8 witness: the flag was set during the probe of an Up-edge; the probe,
\* every mount, the hook and the sleep completed before the loop exited
C8_Witness ==
    pc = "exited" /\ exit_code = 0 /\ opsAfterTerm = Len(smb_shares) + 3

\* C9 as stated: when the mount command of a share cannot be spawned the
\* error leaves the monitor loop and the process exits non-zero.
C9_SpawnFailureLeavesLoop ==
    HasOutcome("spawnfail") =>
        pc \in {"remount", "err", "exited"} /\ exit_code # 0

\* C9 amended: when the mount command of a share cannot be spawned the error
\* is collected like any other per-share error: the remaining shares are still
\* attempted, the pass fails, the hook is not run for that Up-edge, the loop
\* continues at its shutdown check and does not return an error.
C9_SpawnFailureFailsPassOnly ==
    HasOutcome("spawnfail") =>
        /\ pc \in {"remount", "mounting", "loop", "probing", "ret_ok", "exited"}
        /\ passResult # "ok"
        /\ hookRuns = 0
        /\ exit_code # 1
        /\ pc = "remount" => Len(attempted) = Len(outcomes)

\* C9 witness: after a spawn failure on the first of two shares the second
\* was attempted and the loop began its next probe
C9_Witness ==
    /\ pc = "probing"
    /\ Len(outcomes) = 2
    /\ outcomes[1] = "spawnfail"

\* C10: a pass that fails because a mount command exited non-zero only
\* suppresses the hook: the loop goes back to its shutdown check, and the
\* process exits non-zero only when resolution failed at startup or the loop
\* itself returned an error (signal registration, hook spawn).
C10_FailedPassKeepsLooping ==
    /\ (HasOutcome("failed") /\ passResult # "none") =>
          /\ passResult = "err"
          /\ pc \in {"loop", "probing", "ret_ok", "exited"}
          /\ hookRuns = 0
          /\ exit_code \in {-1, 0}
    /\ exit_code = 1 => exit_cause \in {"resolve", "register", "hook_spawn"}
    /\ pc = "err" => exit_cause \in {"register", "hook_spawn"}

\* C10 witness: after a pass with a non-zero mount command the loop probes
\* again
C10_Witness ==
    pc = "probing" /\ HasOutcome("failed") /\ passResult = "err"

InLog(e) == \E k \in 1..Len(log) : log[k] = e

\* C11: when the hook command exits non-zero the loop does not return an
\* error, does not run the hook again for that Up-edge, logs the failure and
\* goes on with the sleep and the next shutdown check.
C11_HookNonZeroIsAbsorbed ==
    hookOutcome = "nonzero" =>
        /\ pc \in {"sleeping", "loop", "probing", "ret_ok", "exited"}
        /\ hookRuns = 1
        /\ InLog("hook_failed")
        /\ exit_code \in {-1, 0}
        /\ pc \in {"loop", "probing"} => sleepsSinceProbe = 1

\* C11 witness: the hook exited non-zero, the loop slept and began its next
\* probe
C11_Witness ==
    hookOutcome = "nonzero" /\ pc = "probing" /\ sleepsSinceProbe = 1

\* C12: when the hostname resolves to an error or to no address, no Remounter
\* is created, no probe, remount call or hook ever occurs, no handler is
\* registered and the process exits with status 1.
C12_ResolutionFailureIsFatal ==
    resolved \in {"err", "empty"} =>
        /\ pc = "exited"
        /\ exit_code = 1
        /\ exit_cause = "resolve"
        /\ polls = 0 /\ attempted = <<>> /\ hookRuns = 0
        /\ signalsSeen = {} /\ ~term

\* C12 witness: resolution yielded no address and the process has exited
C12_Witness ==
    resolved = "empty" /\ pc = "exited" /\ exit_code = 1

\* C13: the flag is false when the loop starts, is true after any delivery of
\* SIGTERM or SIGINT, and once true is never set back to false by the loop
\* or by a later signal.
C13_FlagIsMonotonic ==
    [][/\ term => term'
       /\ (pc = "run" /\ pc' = "loop") => ~term'
       /\ signalsSeen' # signalsSeen => term'
       /\ (signalsSeen # {} /\ pc # "run") => term]_vars

\* C13 witness: both signals were delivered and the loop is still running
C13_Witness ==
    signalsSeen = Signals /\ term /\ pc = "sleeping"

\* C14 as stated: between any two consecutive probes the loop performs
\* exactly one sleep, including after an Up-edge whose pass failed.
C14_OneSleepBetweenProbes ==
    (pc = "probing" /\ polls > 0) => sleepsSinceProbe = 1

\* C15: remount is called for the shares one after another in list order,
\* with at most one mount command in flight, and a probe begins only when the
\* pass of the previous poll has attempted its last share and its hook, when
\* started, has returned.
C15_PassIsSequentialAndBlocksPolling ==
    /\ [](/\ Len(attempted) <= Len(smb_shares)
          /\ attempted = SubSeq(smb_shares, 1, Len(attempted))
          /\ (pc = "mounting" => Len(attempted) = Len(outcomes) + 1)
          /\ (pc # "mounting" => Len(attempted) = Len(outcomes)))
    /\ [][(pc' = "probing" /\ pc # "probing") =>
             /\ passStarted =>
                   (passResult # "none" /\ Len(outcomes) = Len(smb_shares))
             /\ hookRuns = 1 => hookOutcome # "none"]_vars

\* C15 witness: a pass over two different shares and its hook have completed
\* and the next probe is in flight
C15_Witness ==
    /\ pc = "probing"
    /\ Len(attempted) = 2 /\ attempted[1] # attempted[2]
    /\ hookOutcome = "ok"

\* C16 as stated, the part a finite run refutes: when the flag was set while
\* the loop was running, check_connection returns Ok.
C16_ReturnsOkAfterSignal ==
    (opsAfterTerm >= 1 /\ pc \in {"err", "exited"}) =>
        (pc = "exited" /\ exit_code = 0)

\* C16 amended: if a termination signal is delivered after the loop has
\* started and every probe, mount command, hook command and sleep returns,
\* the loop eventually exits; check_connection returns Ok unless the shell of
\* the hook could not be spawned in the rest of that iteration, in which case
\* it returns that error.
C16_SignalLeadsToExit ==
    (term /\ exit_cause # "register") ~>
        (pc = "exited" /\ (exit_code = 0 \/ exit_cause = "hook_spawn"))

\* C16 witness: the flag was set during a probe that found the endpoint
\* unreachable, the sleep completed and the process exited with status 0
C16_Witness ==
    pc = "exited" /\ exit_code = 0 /\ cur = "down" /\ opsAfterTerm = 2

\* C17 as stated: on an Up-edge whose pass fails no "up" event is logged.
C17_UpLoggedOnlyOnSuccess ==
    passResult = "err" => ~InLog("up")

\* C17 amended: on a Down-to-Up transition the "is up, attempting to remount"
\* event is logged before the pass starts, whatever its result; only the
\* "Remount successful" event depends on the pass having succeeded, and a
\* failed pass logs "Remount failed" instead.
C17_UpLoggedBeforePass ==
    /\ passStarted <=> InLog("up")
    /\ passStarted => log[1] = "up"
    /\ InLog("remount_ok") <=> passResult = "ok"
    /\ InLog("remount_failed") <=> passResult = "err"

\* C17 witness: a failed pass with both events logged
C17_Witness ==
    passResult = "err" /\ log = <<"up", "remount_failed">> /\ pc = "loop"

\* C18: whenever the loop is at its shutdown check after at least one probe,
\* was_up is true exactly when the latest probe found the endpoint reachable,
\* whatever the pass or the hook did in between.
C18_WasUpIsLatestProbe ==
    (pc = "loop" /\ polls > 0) => (was_up <=> cur = "up")

\* C18 witness: at the shutdown check after a failed pass was_up is true
C18_Witness ==
    pc = "loop" /\ polls > 0 /\ passResult = "err" /\ was_up /\ ~term

\* C19: when the shell of the hook cannot be spawned after a successful pass,
\* the error leaves the loop at once: no sleep and no further probe occur,
\* check_connection returns the error and the process exits with status 1.
C19_HookSpawnErrorLeavesLoop ==
    hookOutcome = "spawn" =>
        /\ pc \in {"err", "exited"}
        /\ passResult = "ok"
        /\ sleepsSinceProbe = 0
        /\ exit_cause = "hook_spawn"
        /\ pc = "exited" => exit_code = 1

\* C19 witness: the hook could not be spawned and the process exited 1
C19_Witness ==
    hookOutcome = "spawn" /\ pc = "exited" /\ exit_code = 1

====
